---- MODULE Spec2Model ----
(***************************************************************************)
(* Model of TempLogPlot/templogplot.py: the TempLogSerialReader sample     *)
(* store (reset_data, open, close, read) and the TempLogPlot event         *)
(* handlers that drive it (on_redraw_timer, on_pause_button,               *)
(* on_serial_port, on_cb_grid, on_exit).                                   *)
(*                                                                         *)
(* A line is a sequence of one-character strings.  Floats are exact        *)
(* decimals <<m, e>> meaning m / 10^e with trailing zeros stripped; a      *)
(* date2num value is <<d, s>> meaning d + s / 86400 days.                  *)
(***************************************************************************)
EXTENDS Integers, Sequences, FiniteSets, TLC

\* ---------------------------------------------------------------- bounds
MaxBatch == 2
MaxSamples == 3

\* ------------------------------------------------------------ characters
Digit == {"0", "1", "2", "3", "4", "5", "6", "7", "8", "9"}

DigitOrDot == Digit \cup {"."}

DigitVal(c) ==
  CASE c = "0" -> 0 [] c = "1" -> 1 [] c = "2" -> 2 [] c = "3" -> 3
    [] c = "4" -> 4 [] c = "5" -> 5 [] c = "6" -> 6 [] c = "7" -> 7
    [] c = "8" -> 8 [] c = "9" -> 9

\* int(): value of a non-empty string of decimal digits
RECURSIVE int(_)
int(s) ==
  IF s = <<>> THEN 0
  ELSE 10 * int(SubSeq(s, 1, Len(s) - 1)) + DigitVal(s[Len(s)])

\* ------------------------------------------------------ regular expression
\* X+ at position i: 0 when i is 0 (an earlier part failed) or data[i] is not
\* in cls, else the position after the maximal run.  Every X+ of the pattern
\* is followed by a literal outside X, so the greedy run is the only one a
\* backtracking matcher can succeed with.
RECURSIVE RunEnd(_, _, _)
RunEnd(data, i, cls) ==
  IF i <= Len(data) /\ data[i] \in cls THEN RunEnd(data, i + 1, cls) ELSE i

Plus(data, i, cls) ==
  IF i = 0 \/ i > Len(data) THEN 0
  ELSE IF data[i] \in cls THEN RunEnd(data, i, cls) ELSE 0

\* a single character of cls at position i
One(data, i, cls) ==
  IF i = 0 \/ i > Len(data) THEN 0
  ELSE IF data[i] \in cls THEN i + 1 ELSE 0

Grp(data, from, to) == IF to = 0 THEN <<>> ELSE SubSeq(data, from, to - 1)

\* regex.match(data): anchored at the start of data, not at its end
regex_match(data) ==
  LET id1 == Plus(data, 1, Digit)
      y0  == One(data, id1, {","})
      y1  == Plus(data, y0, Digit)
      mo0 == One(data, y1, {"-"})
      mo1 == Plus(data, mo0, Digit)
      d0  == One(data, mo1, {"-"})
      d1  == Plus(data, d0, Digit)
      h0  == One(data, d1, {","})
      h1  == Plus(data, h0, Digit)
      mi0 == One(data, h1, {":"})
      mi1 == Plus(data, mi0, Digit)
      s0  == One(data, mi1, {":"})
      s1  == Plus(data, s0, Digit)
      it0 == One(data, s1, {","})
      it1 == Plus(data, it0, DigitOrDot)
      et0 == One(data, it1, {","})
      et1 == Plus(data, et0, Digit)
      et2 == One(data, et1, {"."})
      et3 == One(data, et2, Digit)
      et4 == One(data, et3, Digit)
  IN  [matched  |-> et4 # 0,
       id       |-> Grp(data, 1, id1),
       year     |-> Grp(data, y0, y1),
       month    |-> Grp(data, mo0, mo1),
       day      |-> Grp(data, d0, d1),
       hour     |-> Grp(data, h0, h1),
       minute   |-> Grp(data, mi0, mi1),
       second   |-> Grp(data, s0, s1),
       int_temp |-> Grp(data, it0, it1),
       ext_temp |-> Grp(data, et0, et4)]

\* ------------------------------------------------------------------ float
NoFloat == <<>>

RECURSIVE Normalize(_, _)
Normalize(m, e) ==
  IF e > 0 /\ m % 10 = 0 THEN Normalize(m \div 10, e - 1) ELSE <<m, e>>

DotPositions(s) == {i \in 1..Len(s) : s[i] = "."}

\* float(s) for s made of digits and dots: ValueError (NoFloat) unless s has
\* at most one dot and at least one digit; "1." and ".5" are accepted
float(s) ==
  LET dots == DotPositions(s)
  IN  IF Cardinality(dots) > 1 \/ Len(s) = Cardinality(dots)
      THEN NoFloat
      ELSE IF dots = {}
      THEN Normalize(int(s), 0)
      ELSE LET p  == CHOOSE i \in dots : TRUE
               ip == SubSeq(s, 1, p - 1)
               fp == SubSeq(s, p + 1, Len(s))
           IN  Normalize(int(ip \o fp), Len(fp))

\* --------------------------------------------------------------- datetime
IsLeap(y) == y % 4 = 0 /\ (y % 100 # 0 \/ y % 400 = 0)

DaysInMonth(y, m) ==
  IF m = 2 THEN (IF IsLeap(y) THEN 29 ELSE 28)
  ELSE IF m \in {4, 6, 9, 11} THEN 30 ELSE 31

\* datetime(...) raises ValueError unless the fields are in range
datetime_ok(g) ==
  LET y == int(g.year)
      m == int(g.month)
      d == int(g.day)
  IN  /\ y \in 1..9999
      /\ m \in 1..12
      /\ d \in 1..DaysInMonth(y, m)
      /\ int(g.hour) \in 0..23
      /\ int(g.minute) \in 0..59
      /\ int(g.second) \in 0..59

RECURSIVE DaysBeforeMonth(_, _)
DaysBeforeMonth(y, m) ==
  IF m = 1 THEN 0 ELSE DaysBeforeMonth(y, m - 1) + DaysInMonth(y, m - 1)

DaysBeforeYear(y) ==
  (y - 1) * 365 + ((y - 1) \div 4) - ((y - 1) \div 100) + ((y - 1) \div 400)

\* dates.date2num(datetime(y, mo, d, h, mi, s)): the day number
\* (toordinal()) and the second of the day, for days + seconds / 86400
date2num(y, mo, d, h, mi, s) ==
  <<DaysBeforeYear(y) + DaysBeforeMonth(y, mo) + d, h * 3600 + mi * 60 + s>>

stamp(g) ==
  date2num(int(g.year), int(g.month), int(g.day),
           int(g.hour), int(g.minute), int(g.second))

\* ------------------------------------------------------------------ lines
Y2020 == <<"2", "0", "2", "0">>
N00 == <<"0", "0">>
N01 == <<"0", "1">>
N13 == <<"1", "3">>
I20_0 == <<"2", "0", ".", "0">>
I20_5 == <<"2", "0", ".", "5">>
E20_00 == <<"2", "0", ".", "0", "0">>
E20_50 == <<"2", "0", ".", "5", "0">>

Rec(id, y, mo, d, h, mi, s, it, et) ==
  id \o <<",">> \o y \o <<"-">> \o mo \o <<"-">> \o d \o <<",">>
     \o h \o <<":">> \o mi \o <<":">> \o s \o <<",">> \o it \o <<",">>
     \o et \o <<"\n">>

\* "1,2020-01-01,00:00:00,20.0,20.00\n"
LineA == Rec(<<"1">>, Y2020, N01, N01, N00, N00, N00, I20_0, E20_00)
\* "2,2020-01-01,00:00:01,20.5,20.50\n"
LineB == Rec(<<"2">>, Y2020, N01, N01, N00, N00, N01, I20_5, E20_50)
\* "42,2013-07-04,14:23:05,24.7,25.31\n"
LineC ==
  Rec(<<"4", "2">>, <<"2", "0", "1", "3">>, <<"0", "7">>, <<"0", "4">>,
      <<"1", "4">>, <<"2", "3">>, <<"0", "5">>, <<"2", "4", ".", "7">>,
      <<"2", "5", ".", "3", "1">>)
\* "x,bad,line\n"
LineBad == <<"x", ",", "b", "a", "d", ",", "l", "i", "n", "e", "\n">>
\* "1,2020-01-01,00:00,20.0,20.00\n": no seconds field
LineNoSec ==
  <<"1", ",">> \o Y2020 \o <<"-">> \o N01 \o <<"-">> \o N01 \o <<",">>
    \o N00 \o <<":">> \o N00 \o <<",">> \o I20_0 \o <<",">> \o E20_00
    \o <<"\n">>
\* "1,2020-01-01,00:00:00,20.0,20.5\n": one digit after the point
LineExt1 == Rec(<<"1">>, Y2020, N01, N01, N00, N00, N00, I20_0, I20_5)
\* "1,2020-13-01,00:00:00,20.0,20.00\n": month 13
LineMonth13 == Rec(<<"1">>, Y2020, N13, N01, N00, N00, N00, I20_0, E20_00)
\* "1,2020-01-01,00:00:00,1.2.3,20.00\n": two points in int_temp
LineIntDots ==
  Rec(<<"1">>, Y2020, N01, N01, N00, N00, N00,
      <<"1", ".", "2", ".", "3">>, E20_00)
\* "1,2020-01-01,00:00:00,.5,20.00\n": int_temp without integer part
LineIntLead ==
  Rec(<<"1">>, Y2020, N01, N01, N00, N00, N00, <<".", "5">>, E20_00)
\* "1,2020-01-01,00:00:00,20.0,20.505\n": three digits after the point
LineExt3 ==
  Rec(<<"1">>, Y2020, N01, N01, N00, N00, N00, I20_0,
      <<"2", "0", ".", "5", "0", "5">>)

LineSet ==
  {LineA, LineB, LineC, LineBad, LineNoSec, LineExt1, LineMonth13, LineIntDots,
   LineIntLead, LineExt3}

\* the lines sent while the window is modelled: two good ones, one on which
\* float() raises and one on which datetime() raises
PlotLineSet == {LineA, LineB, LineIntDots, LineMonth13}

\* serial.Serial(name, baud_rate, timeout=0): ports that can be opened
Ports == {"COM1", "COM9"}
Openable == {"COM1"}
BaudRates == {9600, 115200, 0}

\* datetime.now() at construction of the window: 2019-12-31 23:59:59
Now == date2num(2019, 12, 31, 23, 59, 59)

\* ------------------------------------------------------------------ state
VARIABLES
  serial,         \* _serial: "None", or a Serial object that is "open"/"closed"
  openPorts,      \* number of device handles currently open
  rxbuf,          \* lines the open port has received and not yet returned
  time,           \* TempLogSerialReader.time
  int_temp,       \* TempLogSerialReader.int_temp
  ext_temp,       \* TempLogSerialReader.ext_temp
  plot_time,      \* TempLogPlot.time
  plot_ext_temp,  \* TempLogPlot.ext_temp
  paused,         \* TempLogPlot.paused
  alive,          \* FALSE once the window is destroyed
  lastOp,         \* the last call made
  err,            \* the exception that call raised, or "none"
  devCalls,       \* the methods that call invoked on the Serial object
  drawn           \* whether that call ran draw_plot

storeVars == <<serial, openPorts, rxbuf, time, int_temp, ext_temp>>
plotVars == <<plot_time, plot_ext_temp, paused, alive>>
vars ==
  <<serial, openPorts, rxbuf, time, int_temp, ext_temp, plot_time,
    plot_ext_temp, paused, alive, lastOp, err, devCalls, drawn>>

\* the reader object at the start of a call
Cur ==
  [serial |-> serial, openPorts |-> openPorts, rxbuf |-> rxbuf,
   time |-> time, int_temp |-> int_temp, ext_temp |-> ext_temp,
   err |-> "none", calls |-> <<>>]

\* ------------------------------------------------- TempLogSerialReader
reset_data(s) ==
  [s EXCEPT !.time = <<>>, !.int_temp = <<>>, !.ext_temp = <<>>]

\* close(): _serial is tested for truth, and is never set back to None; a
\* Serial object is true whether its port is open or not, and flush() on a
\* port that is not open raises portNotOpenError
close(s) ==
  IF s.serial = "None" THEN s
  ELSE LET r == reset_data(s)
       IN  IF s.serial = "closed"
           THEN [r EXCEPT !.calls = @ \o <<"flush">>,
                          !.err = "portNotOpenError"]
           ELSE [r EXCEPT !.calls = @ \o <<"flush", "close">>,
                          !.serial = "closed",
                          !.openPorts = @ - 1,
                          !.rxbuf = <<>>]

\* open(): close(), then the constructor, which checks the baud rate
\* before it opens the device
open_noclose(s, name, baud_rate) ==
  IF baud_rate <= 0 THEN [s EXCEPT !.err = "ValueError"]
  ELSE IF name \notin Openable THEN [s EXCEPT !.err = "SerialException"]
  ELSE [s EXCEPT !.serial = "open", !.openPorts = @ + 1, !.rxbuf = <<>>]

open(s, name, baud_rate) ==
  LET c == close(s)
  IN  IF c.err # "none" THEN c
      ELSE IF baud_rate <= 0 THEN [c EXCEPT !.err = "ValueError"]
      ELSE IF name \notin Openable THEN [c EXCEPT !.err = "SerialException"]
      ELSE [c EXCEPT !.serial = "open", !.openPorts = @ + 1, !.rxbuf = <<>>]

\* the body of the while loop for one line; err is set where the body raises
process_swapped(s, data) ==
  LET m == regex_match(data)
  IN  IF ~m.matched THEN s
      ELSE IF ~datetime_ok(m) THEN [s EXCEPT !.err = "ValueError"]
      ELSE LET s1 == [s EXCEPT !.time = Append(@, stamp(m))]
           IN  IF float(m.int_temp) = NoFloat
               THEN [s1 EXCEPT !.err = "ValueError"]
               ELSE [s1 EXCEPT !.int_temp = Append(@, float(m.ext_temp)),
                               !.ext_temp = Append(@, float(m.int_temp))]

process(s, data) ==
  LET m == regex_match(data)
  IN  IF ~m.matched THEN s
      ELSE IF ~datetime_ok(m) THEN [s EXCEPT !.err = "ValueError"]
      ELSE LET s1 == [s EXCEPT !.time = Append(@, stamp(m))]
           IN  IF float(m.int_temp) = NoFloat
               THEN [s1 EXCEPT !.err = "ValueError"]
               ELSE [s1 EXCEPT !.int_temp = Append(@, float(m.int_temp)),
                               !.ext_temp = Append(@, float(m.ext_temp))]

\* data = readline(); while data: ...; data = readline()
RECURSIVE read_loop(_)
read_loop(s) ==
  LET s0 == [s EXCEPT !.calls = Append(@, "readline")]
  IN  IF s.rxbuf = <<>> THEN s0
      ELSE LET p == process([s0 EXCEPT !.rxbuf = Tail(@)], Head(s.rxbuf))
           IN  IF p.err # "none" THEN p ELSE read_loop(p)

\* read(): readline() on a port that is not open raises portNotOpenError
read(s) ==
  IF s.serial = "None" THEN s
  ELSE IF s.serial = "closed"
  THEN [s EXCEPT !.calls = Append(@, "readline"), !.err = "portNotOpenError"]
  ELSE read_loop(s)

\* ------------------------------------------------------------ TempLogPlot
\* draw_plot(): max() and min() raise ValueError on an empty list
draw_plot_err(t, e) == IF t = <<>> \/ e = <<>> THEN "ValueError" ELSE "none"

\* ---------------------------------------------------------------- actions
Init ==
  /\ serial = "None"
  /\ openPorts = 0
  /\ rxbuf = <<>>
  /\ time = <<>>
  /\ int_temp = <<>>
  /\ ext_temp = <<>>
  /\ plot_time = <<Now>>
  /\ plot_ext_temp = <<Normalize(25, 0)>>
  /\ paused = FALSE
  /\ alive = TRUE
  /\ lastOp = "init"
  /\ err = "none"
  /\ devCalls = <<>>
  /\ drawn = FALSE

\* the reader's fields, the exception and the device calls after a call
Commit(r, op) ==
  /\ serial' = r.serial
  /\ openPorts' = r.openPorts
  /\ rxbuf' = r.rxbuf
  /\ time' = r.time
  /\ int_temp' = r.int_temp
  /\ ext_temp' = r.ext_temp
  /\ devCalls' = r.calls
  /\ lastOp' = op

\* the device sends a line to the open port
Deliver(line) ==
  /\ alive
  /\ serial = "open"
  /\ Len(rxbuf) < MaxBatch
  /\ Len(time) + Len(rxbuf) < MaxSamples
  /\ rxbuf' = Append(rxbuf, line)
  /\ lastOp' = "deliver"
  /\ err' = "none"
  /\ devCalls' = <<>>
  /\ drawn' = FALSE
  /\ UNCHANGED <<serial, openPorts, time, int_temp, ext_temp>>
  /\ UNCHANGED plotVars

DeliverAny == \E line \in LineSet : Deliver(line)

DeliverPlot == \E line \in PlotLineSet : Deliver(line)

ResetData ==
  /\ Commit(reset_data(Cur), "reset_data")
  /\ err' = "none"
  /\ drawn' = FALSE
  /\ UNCHANGED plotVars

Open ==
  \E name \in Ports, baud_rate \in BaudRates :
    LET r == open(Cur, name, baud_rate)
    IN  /\ Commit(r, "open")
        /\ err' = r.err
        /\ drawn' = FALSE
        /\ UNCHANGED plotVars

Close ==
  LET r == close(Cur)
  IN  /\ Commit(r, "close")
      /\ err' = r.err
      /\ drawn' = FALSE
      /\ UNCHANGED plotVars

Read ==
  LET r == read(Cur)
  IN  /\ Commit(r, "read")
      /\ err' = r.err
      /\ drawn' = FALSE
      /\ UNCHANGED plotVars

NextStore == DeliverAny \/ ResetData \/ Open \/ Close \/ Read

SpecStore == Init /\ [][NextStore]_vars

\* if self.serial_reader.time: self.time = list(...); self.ext_temp = list(...)
copy_time(w, r) == IF r.time # <<>> THEN r.time ELSE w.time

copy_ext_temp(w, r) == IF r.time # <<>> THEN r.ext_temp ELSE w.ext_temp

\* the rest of on_redraw_timer() once read() has returned r
after_read_unpaused(w, r) ==
  [w EXCEPT !.reader = r,
            !.time = copy_time(w, r),
            !.ext_temp = copy_ext_temp(w, r),
            !.drawn = TRUE,
            !.err = draw_plot_err(copy_time(w, r), copy_ext_temp(w, r))]

after_read(w, r) ==
  IF w.paused THEN [w EXCEPT !.reader = r]
  ELSE [w EXCEPT !.reader = r,
                 !.time = copy_time(w, r),
                 !.ext_temp = copy_ext_temp(w, r),
                 !.drawn = TRUE,
                 !.err = draw_plot_err(copy_time(w, r), copy_ext_temp(w, r))]

\* on_redraw_timer(): the window after the handler; when read() raises the
\* handler ends there
on_redraw_timer(w) ==
  LET r == read(w.reader)
  IN  IF r.err # "none"
      THEN [w EXCEPT !.reader = r, !.err = r.err]
      ELSE after_read(w, r)

\* the window at the start of a handler
Win ==
  [reader |-> Cur, time |-> plot_time, ext_temp |-> plot_ext_temp,
   paused |-> paused, drawn |-> FALSE, err |-> "none"]

OnRedrawTimer ==
  /\ alive
  /\ \E w \in {on_redraw_timer(Win)} :
         /\ Commit(w.reader, "on_redraw_timer")
         /\ plot_time' = w.time
         /\ plot_ext_temp' = w.ext_temp
         /\ drawn' = w.drawn
         /\ err' = w.err
  /\ UNCHANGED <<paused, alive>>

OnPauseButton ==
  /\ alive
  /\ paused' = ~paused
  /\ lastOp' = "on_pause_button"
  /\ err' = "none"
  /\ devCalls' = <<>>
  /\ drawn' = FALSE
  /\ UNCHANGED storeVars
  /\ UNCHANGED <<plot_time, plot_ext_temp, alive>>

\* on_serial_port(): sp is "" when the choice is cancelled
OnSerialPort ==
  /\ alive
  /\ \E sp \in Ports \cup {""} :
       LET r == IF sp # "" THEN open(Cur, sp, 115200) ELSE Cur
       IN  /\ Commit(r, "on_serial_port")
           /\ err' = r.err
  /\ drawn' = FALSE
  /\ UNCHANGED plotVars

OnCbGrid ==
  /\ alive
  /\ lastOp' = "on_cb_grid"
  /\ err' = draw_plot_err(plot_time, plot_ext_temp)
  /\ devCalls' = <<>>
  /\ drawn' = TRUE
  /\ UNCHANGED storeVars
  /\ UNCHANGED plotVars

\* on_exit(): Destroy() is not reached when close() raises
OnExit ==
  /\ alive
  /\ LET r == close(Cur)
     IN  /\ Commit(r, "on_exit")
         /\ err' = r.err
         /\ alive' = (r.err # "none")
  /\ drawn' = FALSE
  /\ UNCHANGED <<plot_time, plot_ext_temp, paused>>

NextPlot ==
  \/ DeliverPlot
  \/ OnRedrawTimer
  \/ OnPauseButton
  \/ OnSerialPort
  \/ OnCbGrid
  \/ OnExit

SpecPlot == Init /\ [][NextPlot]_vars

\* ------------------------------------------- the record grammar, as stated
\* <id:digits>,<year>-<month>-<day>,<hour>:<minute>:<second>,
\* <int_temp:digits[.digits]>,<ext_temp:digits.digits(2)>, read field by
\* field from the whole line (its line end apart)
RECURSIVE SplitOn(_, _)
SplitOn(s, sep) ==
  IF \A i \in 1..Len(s) : s[i] # sep THEN <<s>>
  ELSE LET p == CHOOSE i \in 1..Len(s) :
                  s[i] = sep /\ \A j \in 1..(i - 1) : s[j] # sep
       IN  <<SubSeq(s, 1, p - 1)>> \o SplitOn(SubSeq(s, p + 1, Len(s)), sep)

Body(line) ==
  IF line # <<>> /\ line[Len(line)] = "\n"
  THEN SubSeq(line, 1, Len(line) - 1) ELSE line

AllDigits(f) == f # <<>> /\ \A i \in 1..Len(f) : f[i] \in Digit

DigitsOptFrac(f) ==
  LET parts == SplitOn(f, ".")
  IN  /\ Len(parts) \in {1, 2}
      /\ \A i \in 1..Len(parts) : AllDigits(parts[i])

DigitsTwoPlaces(f) ==
  LET parts == SplitOn(f, ".")
  IN  Len(parts) = 2 /\ AllDigits(parts[1]) /\ AllDigits(parts[2])
        /\ Len(parts[2]) = 2

Triple(f, sep) ==
  LET parts == SplitOn(f, sep)
  IN  Len(parts) = 3 /\ \A i \in 1..3 : AllDigits(parts[i])

GrammarLine(line) ==
  LET f == SplitOn(Body(line), ",")
  IN  /\ Len(f) = 5
      /\ AllDigits(f[1])
      /\ Triple(f[2], "-")
      /\ Triple(f[3], ":")
      /\ DigitsOptFrac(f[4])
      /\ DigitsTwoPlaces(f[5])

\* the fields of a line of the grammar
FDate(line) == SplitOn(SplitOn(Body(line), ",")[2], "-")
FTime(line) == SplitOn(SplitOn(Body(line), ",")[3], ":")
FInt(line) == SplitOn(Body(line), ",")[4]
FExt(line) == SplitOn(Body(line), ",")[5]

CalendarLine(line) ==
  /\ GrammarLine(line)
  /\ int(FDate(line)[1]) \in 1..9999
  /\ int(FDate(line)[2]) \in 1..12
  /\ int(FDate(line)[3]) \in 1..DaysInMonth(int(FDate(line)[1]),
                                            int(FDate(line)[2]))
  /\ int(FTime(line)[1]) \in 0..23
  /\ int(FTime(line)[2]) \in 0..59
  /\ int(FTime(line)[3]) \in 0..59

LineStamp(line) ==
  date2num(int(FDate(line)[1]), int(FDate(line)[2]), int(FDate(line)[3]),
           int(FTime(line)[1]), int(FTime(line)[2]), int(FTime(line)[3]))

Stamps(ls) == [i \in 1..Len(ls) |-> LineStamp(ls[i])]
Ints(ls) == [i \in 1..Len(ls) |-> float(FInt(ls[i]))]
Exts(ls) == [i \in 1..Len(ls) |-> float(FExt(ls[i]))]

\* length of the leading run of lines of ls that satisfy CalendarLine
RECURSIVE LeadRun(_)
LeadRun(ls) ==
  IF ls = <<>> \/ ~CalendarLine(Head(ls)) THEN 0 ELSE 1 + LeadRun(Tail(ls))

IsPrefix(p, q) == Len(p) <= Len(q) /\ SubSeq(q, 1, Len(p)) = p

StoreSame ==
  time' = time /\ int_temp' = int_temp /\ ext_temp' = ext_temp

\* ------------------------------------------------------------------ claims
\* C1: in every reachable state time, int_temp and ext_temp have the same
\* length.
C1_EqualLength ==
  Len(time) = Len(int_temp) /\ Len(int_temp) = Len(ext_temp)

\* C2 as stated: a read() on an open port whose available lines all match the
\* record grammar appends one sample per line, with the line's values, in
\* arrival order, after the previous contents.
C2_EveryGrammarLine ==
  [][(lastOp' = "read" /\ serial = "open"
        /\ \A i \in 1..Len(rxbuf) : GrammarLine(rxbuf[i]))
      => /\ time' = time \o Stamps(rxbuf)
         /\ int_temp' = int_temp \o Ints(rxbuf)
         /\ ext_temp' = ext_temp \o Exts(rxbuf)]_vars

\* C2 amended: a read() on an open port appends, for each line of the leading
\* run of available lines that match the record grammar with date and time
\* fields in calendar range, one sample with the line's values, in arrival
\* order, after the previous contents; when every available line is such a
\* line, nothing else is appended and no error is raised.
C2_CalendarLines ==
  [][(lastOp' = "read" /\ serial = "open")
      => LET n == LeadRun(rxbuf)
             run == SubSeq(rxbuf, 1, n)
         IN  /\ IsPrefix(time \o Stamps(run), time')
             /\ IsPrefix(int_temp \o Ints(run), int_temp')
             /\ IsPrefix(ext_temp \o Exts(run), ext_temp')
             /\ n = Len(rxbuf)
                  => /\ Len(time') = Len(time) + n
                     /\ Len(int_temp') = Len(int_temp) + n
                     /\ Len(ext_temp') = Len(ext_temp) + n
                     /\ err' = "none"
                     /\ rxbuf' = <<>>]_vars

\* two lines of the grammar have been read: readings in arrival order
C2_Witness ==
  /\ lastOp = "read"
  /\ err = "none"
  /\ Len(time) = 2
  /\ int_temp = <<<<247, 1>>, <<205, 1>>>>
  /\ ext_temp = <<<<2531, 2>>, <<205, 1>>>>

\* C3: a read() on an open port whose available lines all fail the record
\* grammar raises no error and leaves the three sequences as they were.
C3_NonGrammarLinesDiscarded ==
  [][(lastOp' = "read" /\ serial = "open" /\ rxbuf # <<>>
        /\ \A i \in 1..Len(rxbuf) : ~GrammarLine(rxbuf[i]))
      => (err' = "none" /\ StoreSame)]_vars

\* C4: close() on an open port empties the three sequences, and a read()
\* that follows a close() makes no call on the device, raises no error and
\* leaves the sequences as they were.
C4_ClosedStaysEmpty ==
  [][/\ (lastOp' = "close" /\ serial = "open")
          => (time' = <<>> /\ int_temp' = <<>> /\ ext_temp' = <<>>)
     /\ (lastOp = "close" /\ lastOp' = "read")
          => (err' = "none" /\ devCalls' = <<>> /\ StoreSame)]_vars

\* C5: close() before any open(), or directly after a close(), makes no call
\* on the device, raises no error and changes nothing in the store.
C5_CloseIdempotent ==
  [][(lastOp' = "close" /\ (serial = "None" \/ lastOp = "close"))
      => (err' = "none" /\ devCalls' = <<>> /\ UNCHANGED storeVars)]_vars

\* C6: at most one port is open at any time, and an open() on an open port
\* flushes and closes it first; when that open() succeeds the three sequences
\* and the receive buffer are empty and exactly one port is open.
C6_OneConnection ==
  [][/\ openPorts <= 1 /\ openPorts' <= 1
     /\ (lastOp' = "open" /\ serial = "open")
          => /\ IsPrefix(<<"flush", "close">>, devCalls')
             /\ err' = "none"
                  => /\ serial' = "open"
                     /\ openPorts' = 1
                     /\ rxbuf' = <<>>
                     /\ time' = <<>> /\ int_temp' = <<>> /\ ext_temp' = <<>>
             /\ err' # "none" => openPorts' = 0]_vars

\* a port was reopened while open
C6_Witness ==
  /\ lastOp = "open"
  /\ err = "none"
  /\ devCalls = <<"flush", "close">>
  /\ serial = "open"
  /\ openPorts = 1

\* C7: after an open() that raised, no port is open, a read() makes no call
\* on the device and raises nothing, and a close() is a no-op.
C7_FailedOpenNotConnected ==
  [][(lastOp = "open" /\ err # "none")
      => /\ openPorts = 0
         /\ lastOp' \in {"read", "close"}
              => (err' = "none" /\ devCalls' = <<>>
                    /\ UNCHANGED storeVars)]_vars

\* C8: a read() on an open port consumes every available line, and every
\* line of the grammar with date and time in calendar range among them yields
\* a sample, whatever lines precede it.
C8_DrainsEveryLine ==
  [][(lastOp' = "read" /\ serial = "open")
      => /\ rxbuf' = <<>>
         /\ Len(ext_temp') >= Len(ext_temp)
              + Cardinality({i \in 1..Len(rxbuf) : CalendarLine(rxbuf[i])})]_vars

\* C9: the displayed sequences are never empty and have equal length.
C9_DisplayNonEmptyAligned ==
  /\ plot_time # <<>>
  /\ plot_ext_temp # <<>>
  /\ Len(plot_time) = Len(plot_ext_temp)

\* C10 as stated: every tick polls the store; a tick while paused leaves the
\* displayed sequences as they were and does not redraw; the first tick after
\* the display is resumed sets the displayed sequences to the store's
\* contents.
C10_ResumeShowsStore ==
  [][lastOp' = "on_redraw_timer"
      => /\ serial # "None" => IsPrefix(<<"readline">>, devCalls')
         /\ paused
              => (UNCHANGED <<plot_time, plot_ext_temp>> /\ ~drawn')
         /\ (~paused /\ lastOp = "on_pause_button")
              => (plot_time' = time' /\ plot_ext_temp' = ext_temp')]_vars

\* C10 amended: every tick polls the store; a tick while paused leaves the
\* displayed sequences as they were and does not redraw; a tick while not
\* paused sets the displayed sequences to the store's time and ext_temp when
\* the poll raised nothing and the store's time is not empty, and otherwise
\* leaves them as they were.
C10_ResumeShowsNonEmptyStore ==
  [][lastOp' = "on_redraw_timer"
      => /\ serial # "None" => IsPrefix(<<"readline">>, devCalls')
         /\ paused
              => (UNCHANGED <<plot_time, plot_ext_temp>> /\ ~drawn')
         /\ (~paused /\ err' = "none") => drawn'
         /\ (~paused /\ drawn' /\ time' # <<>>)
              => (plot_time' = time' /\ plot_ext_temp' = ext_temp')
         /\ (~paused /\ (~drawn' \/ time' = <<>>))
              => UNCHANGED <<plot_time, plot_ext_temp>>]_vars

\* a tick while paused has polled two samples into the store and left the
\* display alone
C10_Witness ==
  /\ lastOp = "on_redraw_timer"
  /\ paused
  /\ ~drawn
  /\ Len(time) = 2
  /\ Len(ext_temp) = 2
  /\ plot_time # time

====
